---------------------------- MODULE Spec2Model ----------------------------
(***************************************************************************)
(* A model of jshell (src/jshell.c): the read loop, the quote-aware        *)
(* tokenizer split_line, the dispatcher jshell_exec, the pipeline split    *)
(* jshell_pipe, and the process supervision of jshell_run and              *)
(* jshell_exec_pipe, with the forked children and the pipe between them.   *)
(*                                                                         *)
(* A C string is a sequence of one-character strings; the terminating NUL  *)
(* is what At returns past the end.  A char* array is a sequence of        *)
(* strings; its NULL terminator is the end of the sequence.                *)
(*                                                                         *)
(* Spec is the shell with its children; there split_line is one step.      *)
(* SplitSpec is split_line alone, one loop iteration per step, with the    *)
(* index of every write into its two heap buffers.                         *)
(***************************************************************************)
EXTENDS Integers, Sequences, FiniteSets, TLC

(***************************************************************************)
(* Bounds of the model.                                                    *)
(***************************************************************************)
MaxTokens == 3      \* words on an input line
MaxOutput == 1      \* chunks a program writes to its standard output
PipeCap == 1        \* chunks the kernel buffers in a pipe
MaxLineLen == 6     \* characters of a line given to split_line alone
MaxExtra == 1       \* how far a long line goes past a buffer's size

(***************************************************************************)
(* Program constants.                                                      *)
(***************************************************************************)
JSHELL_EXIT_CODE == 27
JSHELL_SUCCESS == 0
JSHELL_FAILED == 1
TOKEN_BUFFER_SIZE == 32
MAX_WORD_SIZE == 100

JSHELL_PIPE == <<"|">>
NUL == "NUL"
BEL == "BEL"
Quote == "\""

\* A pointer that is NULL, and one that holds whatever malloc left there.
NullPtr == <<"NULL">>
Garbage == <<"GARBAGE">>
UninitValues == {NullPtr, Garbage}

builtins == << <<"c", "d">>, <<"h", "e", "l", "p">>, <<"e", "x", "i", "t">> >>

jshell_num_builtins == Len(builtins)

(***************************************************************************)
(* PARSING                                                                 *)
(***************************************************************************)
At(line, i) == IF i > Len(line) THEN NUL ELSE line[i]

\* A test that knows the four white-space delimiters only.
is_space(c) == c \in {" ", "\t", "\r", "\n"}

is_delimiter(c) == c \in {" ", "\t", "\r", "\n", BEL}

RECURSIVE split_scan(_, _, _, _, _)

\* The tail of split_line: the unterminated-quote check and the result.
split_end(in_quotes, tokens) ==
    IF in_quotes THEN [ok |-> FALSE, tokens |-> tokens,
                       msg |-> "Parsing ended unexpectedly."]
    ELSE [ok |-> TRUE, tokens |-> tokens, msg |-> ""]

\* The code at label End_token, entered with line[i] a delimiter or NUL.
End_token(line, i, token, in_quotes, tokens) ==
    IF token = << >>
    THEN IF At(line, i) = NUL
         THEN split_end(in_quotes, tokens)
         ELSE split_scan(line, i + 1, << >>, in_quotes, tokens)
    ELSE IF At(line, i) = NUL
         THEN split_end(in_quotes, Append(tokens, token))
         ELSE split_scan(line, i + 1, << >>, in_quotes, Append(tokens, token))

\* One iteration of the for loop of split_line, at (1-based) position i.
split_scan(line, i, token, in_quotes, tokens) ==
    IF At(line, i) = NUL THEN End_token(line, i, token, in_quotes, tokens)
    ELSE IF line[i] = Quote
    THEN IF ~in_quotes
         THEN split_scan(line, i + 1, token, TRUE, tokens)
         ELSE IF ~is_delimiter(At(line, i + 1)) /\ At(line, i + 1) # NUL
              THEN [ok |-> FALSE, tokens |-> tokens,
                    msg |-> "Expected delimiter after end quote."]
              ELSE End_token(line, i + 1, token, FALSE, tokens)
    ELSE IF ~is_delimiter(line[i]) \/ in_quotes
    THEN split_scan(line, i + 1, Append(token, line[i]), in_quotes, tokens)
    ELSE End_token(line, i, token, in_quotes, tokens)

split_line(line) == split_scan(line, 1, << >>, FALSE, << >>)


(***************************************************************************)
(* COMMANDS: the pure parts of jshell_exec and jshell_pipe                 *)
(***************************************************************************)
Max(S) == CHOOSE m \in S : \A x \in S : x <= m
Min(S) == CHOOSE m \in S : \A x \in S : m <= x

\* A scan that takes the pipe character anywhere in the token for a match.
PipeAnywhere(tok) == \E i \in 1..Len(tok) : tok[i] = JSHELL_PIPE[1]

\* args[i][0]==JSHELL_PIPE[0]
PipeStart(tok) == tok[1] = JSHELL_PIPE[1]

\* The first index the scan of jshell_exec stops at, 0 if it runs to the end.
FirstPipe(a) ==
    LET S == {i \in 1..Len(a) : PipeStart(a[i])}
    IN  IF S = {} THEN 0 ELSE Min(S)

\* The index of the builtin whose name strcmp finds equal to args[0], or 0.
BuiltinIndex(a) ==
    LET S == {b \in 1..jshell_num_builtins : a[1] = builtins[b]}
    IN  IF S = {} THEN 0 ELSE Min(S)

\* What the pipe scan of jshell_exec decides at its first match i.
pipe_check(a, i) ==
    IF Len(a[i]) > 1 \/ i = 1 THEN "syntax"
    ELSE IF i = Len(a) THEN "noright"
    ELSE "pipe"

\* The branch jshell_exec takes on args.
exec_route(a) ==
    IF a = << >> THEN "empty"
    ELSE IF FirstPipe(a) # 0 THEN pipe_check(a, FirstPipe(a))
    ELSE IF BuiltinIndex(a) # 0 THEN "builtin"
    ELSE "run"

\* sizeof_left after the first loop of jshell_pipe (the loop starts at i=1).
sizeof_left(a) ==
    LET S == {i \in 2..Len(a) : PipeStart(a[i])}
    IN  IF S = {} THEN 0 ELSE Max(S)

sizeof_right(a) == Len(a) - sizeof_left(a) + 1

\* The tokens the second loop of jshell_pipe appends to right_args.
right_copied(a) ==
    LET idx == {i \in 1..Len(a) : i > sizeof_left(a) /\ ~PipeStart(a[i])}
        F[k \in 0..Len(a)] ==
            IF k = 0 THEN << >>
            ELSE IF k \in idx THEN Append(F[k - 1], a[k]) ELSE F[k - 1]
    IN  F[Len(a)]

\* left_args before its NULL terminator: slot i holds args[i] unless the
\* second loop skipped it, and then whatever malloc left there (heap[i]).
left_array(a, heap) ==
    [i \in 1..(sizeof_left(a) - 1) |->
        IF PipeStart(a[i]) THEN heap[i] ELSE a[i]]

\* right_args before its NULL terminator.
right_array(a, heap) ==
    [j \in 1..(sizeof_right(a) - 1) |->
        IF j <= Len(right_copied(a)) THEN right_copied(a)[j] ELSE heap[j]]

\* The argument vector execvp reads: the array up to its first NULL.
Argv(arr) ==
    LET S == {i \in 1..Len(arr) : arr[i] = NullPtr}
    IN  IF S = {} THEN arr ELSE SubSeq(arr, 1, Min(S) - 1)

(***************************************************************************)
(* Input lines: up to MaxTokens words joined by single spaces, the words   *)
(* after the first being separators, arguments and a directory's name;    *)
(* and lines of delimiters only.                                           *)
(***************************************************************************)
Words == { <<"|">>, <<"|", "x">>, <<"a", "|", "b">>,
           <<"e", "x", "i", "t">>, <<"c", "d">>, <<"h", "e", "l", "p">>,
           <<Quote, "x">> }

RECURSIVE Join(_)
Join(ws) ==
    IF ws = << >> THEN << >>
    ELSE IF Len(ws) = 1 THEN ws[1]
    ELSE ws[1] \o <<" ">> \o Join(Tail(ws))

ArgWords == Words \ { <<"e", "x", "i", "t">>, <<"c", "d">> }

WordLists(n) == {ws \in [1..n -> Words] : \A k \in 2..n : ws[k] \in ArgWords}

BlankLines == { <<" ">>, <<"\t", " ">>, <<BEL, "\r", "\n">> }

Lines == UNION { {Join(ws) : ws \in WordLists(n)} : n \in 0..MaxTokens }
             \cup BlankLines

(***************************************************************************)
(* State                                                                   *)
(***************************************************************************)
VARIABLES
    pc,          \* where the shell process is
    line,        \* jshell_loop: line
    args,        \* jshell_loop: args
    ret_code,    \* jshell_loop: ret_code
    left_args,   \* jshell_pipe: left_args
    right_args,  \* jshell_pipe: right_args
    err,         \* what the shell and its children wrote to stderr in this iteration
    fds,         \* per process, its open descriptors of the current pipe
    buf,         \* chunks buffered in the current pipe
    proc,        \* the children of the current call
    orphans,     \* was a child of an earlier call never waited for?
    cwd,         \* the shell's working directory
    sl           \* split_line: its locals and the index of its last writes

vars == <<pc, line, args, ret_code, left_args, right_args, err, fds, buf,
          proc, orphans, cwd, sl>>

Children == {"left", "right", "single"}
Processes == {"shell"} \cup Children

\* st: none, forked, wired, running, stopped, zombie (terminated, not yet
\* waited for) or reaped; kind: what the launched program does; out: the
\* chunks it has still to write; status: how it terminated; rep: a stop
\* that waitpid has already reported.
NoProc == [st |-> "none", kind |-> "-", out |-> 0, rep |-> FALSE, status |-> "-"]
NoFds == [p \in Processes |-> {}]

\* The processes holding an open descriptor of the pipe's write / read end.
Writers == {p \in Processes : "pipefd1" \in fds[p] \/ (p = "left" /\ "std" \in fds[p])}
Readers == {p \in Processes : "pipefd0" \in fds[p] \/ (p = "right" /\ "std" \in fds[p])}

Terminated(c) == proc[c].st \in {"zombie", "reaped"}
Alive(c) == proc[c].st \in {"forked", "wired", "running", "stopped"}
Unawaited(c) == Alive(c) \/ proc[c].st = "zombie"

\* The directory the shell is started in, and the directories chdir can
\* enter: the file system is the shell's environment.
StartDir == <<"/">>
Dirs == { <<"h", "e", "l", "p">> }

\* The locals of split_line as its for loop is entered.  token holds the
\* characters written to the current token buffer (j is its length), tokens
\* the pointers stored so far (current_token is its length); wtok and warr
\* are the indices the last step wrote at in the token buffer and in the
\* tokens array (-1: it wrote nothing there); smashed says that some write
\* so far went past the end of its allocation.
split_enter(l) ==
    [pc |-> "loop", line |-> l, i |-> 1, token |-> << >>, in_quotes |-> FALSE,
     buffer_size |-> TOKEN_BUFFER_SIZE, current_token |-> 0, tokens |-> << >>,
     wtok |-> -1, warr |-> -1, smashed |-> FALSE, msg |-> ""]

NotCalled == [pc |-> "idle"]

ShellInit ==
    /\ pc = "prompt"
    /\ line = << >>
    /\ args = << >>
    /\ ret_code = JSHELL_SUCCESS
    /\ left_args = << >>
    /\ right_args = << >>
    /\ err = {}
    /\ fds = NoFds
    /\ buf = 0
    /\ proc = [c \in Children |-> NoProc]
    /\ orphans = FALSE
    /\ cwd = StartDir

Init == ShellInit /\ sl = NotCalled


(***************************************************************************)
(* The shell process: jshell_loop                                          *)
(***************************************************************************)
show_prompt ==
    /\ pc = "prompt"
    /\ pc' = "read"
    /\ UNCHANGED <<line, args, ret_code, left_args, right_args, err, fds, buf,
                   proc, orphans, cwd, sl>>

jshell_read_line ==
    /\ pc = "read"
    /\ \E l \in Lines : line' = l
    /\ pc' = "split"
    /\ UNCHANGED <<args, ret_code, left_args, right_args, err, fds, buf, proc,
                   orphans, cwd, sl>>

\* args = split_line(line), or raise_error from inside it.
SplitLine ==
    /\ pc = "split"
    /\ LET r == split_line(line)
       IN  IF r.ok
           THEN /\ args' = r.tokens
                /\ pc' = "exec"
                /\ err' = err
           ELSE /\ args' = args
                /\ pc' = "aborted"
                /\ err' = err \cup {r.msg}
    /\ UNCHANGED <<line, ret_code, left_args, right_args, fds, buf, proc, orphans, cwd, sl>>

\* return code from jshell_exec back in jshell_loop
Return(code) ==
    /\ ret_code' = code
    /\ pc' = "ret"

\* A loop that goes on only after a success.
loop_while_success(code) == code = JSHELL_SUCCESS

\* while(ret_code!=JSHELL_EXIT_CODE)
loop_again(code) == code # JSHELL_EXIT_CODE

\* free(line); free_double_pointer(args); and the loop condition
LoopEnd ==
    /\ pc = "ret"
    /\ pc' = IF loop_again(ret_code) THEN "prompt" ELSE "done"
    /\ orphans' = (orphans \/ \E c \in Children : Unawaited(c))
    /\ line' = << >>
    /\ args' = << >>
    /\ left_args' = << >>
    /\ right_args' = << >>
    /\ err' = {}
    /\ fds' = NoFds
    /\ buf' = 0
    /\ proc' = [c \in Children |-> NoProc]
    /\ UNCHANGED <<ret_code, cwd, sl>>

(***************************************************************************)
(* jshell_exec                                                             *)
(***************************************************************************)
ExecEmpty ==
    /\ pc = "exec"
    /\ exec_route(args) = "empty"
    /\ Return(JSHELL_SUCCESS)
    /\ UNCHANGED <<line, args, left_args, right_args, err, fds, buf, proc, orphans, cwd, sl>>

ExecSyntax ==
    /\ pc = "exec"
    /\ exec_route(args) = "syntax"
    /\ err' = err \cup {"jshell: Syntax error for '|'."}
    /\ Return(JSHELL_FAILED)
    /\ UNCHANGED <<line, args, left_args, right_args, fds, buf, proc, orphans, cwd, sl>>

\* A dispatcher that rejects a missing right command without a word.
ExecNoRight_silent ==
    /\ pc = "exec"
    /\ exec_route(args) = "noright"
    /\ Return(JSHELL_FAILED)
    /\ UNCHANGED <<line, args, left_args, right_args, err, fds, buf, proc,
                   orphans, cwd, sl>>

ExecNoRight ==
    /\ pc = "exec"
    /\ exec_route(args) = "noright"
    /\ err' = err \cup {"jshell: Right command expected for piping."}
    /\ Return(JSHELL_FAILED)
    /\ UNCHANGED <<line, args, left_args, right_args, fds, buf, proc, orphans, cwd, sl>>

\* return jshell_pipe(args): the split, up to the call of jshell_exec_pipe
jshell_pipe ==
    /\ pc = "exec"
    /\ exec_route(args) = "pipe"
    /\ IF sizeof_left(args) = 0 \/ sizeof_right(args) = 0
       THEN /\ Return(1)
            /\ UNCHANGED <<left_args, right_args>>
       ELSE /\ \E heap \in [1..Len(args) -> UninitValues] :
                  /\ left_args' = left_array(args, heap)
                  /\ right_args' = right_array(args, heap)
            /\ pc' = "pipe"
            /\ UNCHANGED ret_code
    /\ UNCHANGED <<line, args, err, fds, buf, proc, orphans, cwd, sl>>

\* A cd that takes a chdir that failed for a failure of the command.
jshell_cd_strict ==
    /\ pc = "exec"
    /\ exec_route(args) = "builtin"
    /\ builtins[BuiltinIndex(args)] = <<"c", "d">>
    /\ IF Len(args) < 2
       THEN /\ err' = err \cup {"jshell: Error occurred: Argument expected for 'cd' command"}
            /\ pc' = "aborted"
            /\ UNCHANGED <<ret_code, cwd>>
       ELSE \/ /\ args[2] \in Dirs
               /\ cwd' = args[2]
               /\ err' = err
               /\ Return(JSHELL_SUCCESS)
            \/ /\ cwd' = cwd
               /\ err' = err \cup {"jshell: chdir"}
               /\ Return(JSHELL_FAILED)
    /\ UNCHANGED <<line, args, left_args, right_args, fds, buf, proc, orphans, sl>>

\* chdir(dir) != 0: it can succeed only on a directory that exists, and can
\* fail on any (no permission, for one).
chdir_outcomes(dir) == IF dir \in Dirs THEN BOOLEAN ELSE {FALSE}

jshell_cd ==
    /\ pc = "exec"
    /\ exec_route(args) = "builtin"
    /\ builtins[BuiltinIndex(args)] = <<"c", "d">>
    /\ IF Len(args) < 2
       THEN /\ err' = err \cup {"jshell: Error occurred: Argument expected for 'cd' command"}
            /\ pc' = "aborted"
            /\ UNCHANGED ret_code
            /\ UNCHANGED cwd
       ELSE /\ \E chdir_ok \in chdir_outcomes(args[2]) :
                  /\ err' = IF chdir_ok THEN err ELSE err \cup {"jshell: chdir"}
                  /\ cwd' = IF chdir_ok THEN args[2] ELSE cwd
            /\ Return(JSHELL_SUCCESS)
    /\ UNCHANGED <<line, args, left_args, right_args, fds, buf, proc, orphans, sl>>

jshell_help ==
    /\ pc = "exec"
    /\ exec_route(args) = "builtin"
    /\ builtins[BuiltinIndex(args)] = <<"h", "e", "l", "p">>
    /\ Return(JSHELL_SUCCESS)
    /\ UNCHANGED <<line, args, left_args, right_args, err, fds, buf, proc, orphans, cwd, sl>>

\* An exit builtin that takes extra arguments for a mistake and goes on.
jshell_exit_strict ==
    /\ pc = "exec"
    /\ exec_route(args) = "builtin"
    /\ builtins[BuiltinIndex(args)] = <<"e", "x", "i", "t">>
    /\ Return(IF Len(args) = 1 THEN JSHELL_EXIT_CODE ELSE JSHELL_SUCCESS)
    /\ UNCHANGED <<line, args, left_args, right_args, err, fds, buf, proc, orphans, cwd, sl>>

jshell_exit ==
    /\ pc = "exec"
    /\ exec_route(args) = "builtin"
    /\ builtins[BuiltinIndex(args)] = <<"e", "x", "i", "t">>
    /\ Return(JSHELL_EXIT_CODE)
    /\ UNCHANGED <<line, args, left_args, right_args, err, fds, buf, proc, orphans, cwd, sl>>

ExecRun ==
    /\ pc = "exec"
    /\ exec_route(args) = "run"
    /\ pc' = "run_fork"
    /\ UNCHANGED <<line, args, ret_code, left_args, right_args, err, fds, buf,
                   proc, orphans, cwd, sl>>


(***************************************************************************)
(* fork and waitpid, as the shell uses them                                *)
(***************************************************************************)
\* The child starts as a copy of the parent, descriptors included.
Forked(c) ==
    /\ proc' = [proc EXCEPT ![c] = [NoProc EXCEPT !.st = "forked"]]
    /\ fds' = IF c = "single" THEN fds ELSE [fds EXCEPT ![c] = fds["shell"]]

\* A wait loop that takes any return of waitpid for the child's end.
wait_done_any(status) == status # "none"

\* The condition that ends  do { waitpid(...) } while(!WIFEXITED && !WIFSIGNALED)
wait_done(status) == status \in {"exit0", "exit1", "signal"}

\* What waitpid(pid, &status, WUNTRACED) can report about child c now.
WaitStatus(c) ==
    IF proc[c].st = "zombie" THEN proc[c].status
    ELSE IF proc[c].st = "stopped" /\ ~proc[c].rep THEN "stopped"
    ELSE "none"

\* One return of waitpid on c inside its do-while; next is where the shell
\* goes once the loop ends.
WaitLoop(c, next) ==
    /\ WaitStatus(c) # "none"
    /\ proc' = IF proc[c].st = "zombie"
               THEN [proc EXCEPT ![c].st = "reaped"]
               ELSE [proc EXCEPT ![c].rep = TRUE]
    /\ IF wait_done(WaitStatus(c)) THEN next ELSE UNCHANGED <<pc, ret_code>>

(***************************************************************************)
(* jshell_run                                                              *)
(***************************************************************************)
RunFork ==
    /\ pc = "run_fork"
    /\ \/ /\ Forked("single")
          /\ pc' = "run_wait"
          /\ UNCHANGED <<ret_code, err>>
       \/ /\ err' = err \cup {"jshell: fork"}
          /\ Return(JSHELL_SUCCESS)
          /\ UNCHANGED <<proc, fds>>
    /\ UNCHANGED <<line, args, left_args, right_args, buf, orphans, cwd, sl>>

\* A jshell_run that returns without waiting for its child.
RunWait_nohang ==
    /\ pc = "run_wait"
    /\ Return(JSHELL_SUCCESS)
    /\ UNCHANGED <<line, args, left_args, right_args, err, fds, buf, proc,
                   orphans, cwd, sl>>

RunWait ==
    /\ pc = "run_wait"
    /\ WaitLoop("single", Return(JSHELL_SUCCESS))
    /\ UNCHANGED <<line, args, left_args, right_args, err, fds, buf, orphans, cwd, sl>>

(***************************************************************************)
(* jshell_exec_pipe                                                        *)
(***************************************************************************)
PipeCreate ==
    /\ pc = "pipe"
    /\ \/ /\ fds' = [fds EXCEPT !["shell"] = {"pipefd0", "pipefd1"}]
          /\ pc' = "fork1"
          /\ UNCHANGED <<ret_code, err>>
       \/ /\ err' = err \cup {"jshell: Pipe could not be initialized."}
          /\ Return(JSHELL_FAILED)
          /\ UNCHANGED fds
    /\ UNCHANGED <<line, args, left_args, right_args, buf, proc, orphans, cwd, sl>>

\* A pipeline that waits for the left child as soon as it is forked.
Fork1_then_wait ==
    /\ pc = "fork1"
    /\ \/ /\ Forked("left")
          /\ pc' = "wait1"
          /\ UNCHANGED <<ret_code, err>>
       \/ /\ err' = err \cup {"jshell: Fork failed."}
          /\ Return(JSHELL_FAILED)
          /\ UNCHANGED <<proc, fds>>
    /\ UNCHANGED <<line, args, left_args, right_args, buf, orphans, cwd, sl>>

Fork1 ==
    /\ pc = "fork1"
    /\ \/ /\ Forked("left")
          /\ pc' = "fork2"
          /\ UNCHANGED <<ret_code, err>>
       \/ /\ err' = err \cup {"jshell: Fork failed."}
          /\ Return(JSHELL_FAILED)
          /\ UNCHANGED <<proc, fds>>
    /\ UNCHANGED <<line, args, left_args, right_args, buf, orphans, cwd, sl>>

Fork2 ==
    /\ pc = "fork2"
    /\ \/ /\ Forked("right")
          /\ pc' = "wait1"
          /\ UNCHANGED <<ret_code, err>>
       \/ /\ err' = err \cup {"jshell: Fork failed."}
          /\ Return(JSHELL_FAILED)
          /\ UNCHANGED <<proc, fds>>
    /\ UNCHANGED <<line, args, left_args, right_args, buf, orphans, cwd, sl>>

Wait1 ==
    /\ pc = "wait1"
    /\ WaitLoop("left", pc' = "wait2" /\ UNCHANGED ret_code)
    /\ UNCHANGED <<line, args, left_args, right_args, err, fds, buf, orphans, cwd, sl>>

Wait2 ==
    /\ pc = "wait2"
    /\ WaitLoop("right", Return(JSHELL_SUCCESS))
    /\ UNCHANGED <<line, args, left_args, right_args, err, fds, buf, orphans, cwd, sl>>

(***************************************************************************)
(* The children, between fork and execvp                                   *)
(***************************************************************************)
\* left:  close(pipefd[0]); dup2(pipefd[1], STDOUT_FILENO); close(pipefd[1]);
\* right: close(pipefd[1]); dup2(pipefd[0], STDIN_FILENO);  close(pipefd[0]);
ChildWire(c) ==
    /\ c \in {"left", "right"}
    /\ proc[c].st = "forked"
    /\ proc' = [proc EXCEPT ![c].st = "wired"]
    /\ fds' = [fds EXCEPT ![c] = {"std"}]
    /\ UNCHANGED <<pc, line, args, ret_code, left_args, right_args, err, buf, orphans, cwd, sl>>

ChildArgv(c) ==
    IF c = "left" THEN Argv(left_args)
    ELSE IF c = "right" THEN Argv(right_args)
    ELSE args

\* A process that ends: its descriptors close, it stays a zombie until waited for.
Ends(c, status) ==
    /\ proc' = [proc EXCEPT ![c].st = "zombie", ![c].status = status]
    /\ fds' = [fds EXCEPT ![c] = {}]

\* execvp(argv[0], argv); on failure perror and exit(EXIT_FAILURE).  With a
\* NULL argv[0] the call cannot succeed: it fails or the child crashes.
ChildExec(c) ==
    /\ proc[c].st = IF c = "single" THEN "forked" ELSE "wired"
    /\ \/ /\ ChildArgv(c) # << >>
          /\ \E k \in {"finite", "filter"}, n \in 0..MaxOutput :
                /\ k = "filter" => n = 0
                /\ proc' = [proc EXCEPT ![c].st = "running", ![c].kind = k,
                                        ![c].out = n]
          /\ UNCHANGED <<fds, err>>
       \/ /\ Ends(c, "exit1")
          /\ err' = err \cup {"perror: execvp"}
       \/ /\ ChildArgv(c) = << >>
          /\ Ends(c, "signal")
          /\ UNCHANGED err
    /\ UNCHANGED <<pc, line, args, ret_code, left_args, right_args, buf, orphans, cwd, sl>>

(***************************************************************************)
(* The launched programs.  A "finite" program writes out chunks (at most   *)
(* MaxOutput) to its standard output and ends; a "filter" reads its        *)
(* standard input and ends when it reads end-of-input.                     *)
(***************************************************************************)
\* write(1, ...): into the pipe for the left program, blocking while the
\* pipe is full and raising SIGPIPE when no read end is open.
ProgWrite(c) ==
    /\ proc[c].st = "running"
    /\ proc[c].kind = "finite"
    /\ proc[c].out > 0
    /\ IF c = "left"
       THEN IF Readers = {}
            THEN /\ Ends(c, "signal")
                 /\ UNCHANGED buf
            ELSE /\ buf < PipeCap
                 /\ buf' = buf + 1
                 /\ proc' = [proc EXCEPT ![c].out = @ - 1]
                 /\ UNCHANGED fds
       ELSE /\ proc' = [proc EXCEPT ![c].out = @ - 1]
            /\ UNCHANGED <<buf, fds>>
    /\ UNCHANGED <<pc, line, args, ret_code, left_args, right_args, err, orphans, cwd, sl>>

\* read(0, ...) by the right program returning data from the pipe.
ProgRead(c) ==
    /\ c = "right"
    /\ proc[c].st = "running"
    /\ proc[c].kind = "filter"
    /\ buf > 0
    /\ buf' = buf - 1
    /\ UNCHANGED <<pc, line, args, ret_code, left_args, right_args, err, fds,
                   proc, orphans, cwd, sl>>

\* read(0, ...) returns 0: the pipe is empty and no write end is open.  The
\* terminal, read by the other programs, can give end-of-input at any time.
EndOfInput(c) == c = "right" => (buf = 0 /\ Writers = {})

ProgExit(c) ==
    /\ proc[c].st = "running"
    /\ proc[c].kind = "filter" => EndOfInput(c)
    /\ proc[c].kind = "finite" => proc[c].out = 0
    /\ \E status \in {"exit0", "exit1"} : Ends(c, status)
    /\ UNCHANGED <<pc, line, args, ret_code, left_args, right_args, err, buf, orphans, cwd, sl>>

\* Signals from outside: SIGKILL, SIGSTOP, SIGCONT.
ProgSignal(c) ==
    /\ proc[c].st \in {"running", "stopped"}
    /\ Ends(c, "signal")
    /\ UNCHANGED <<pc, line, args, ret_code, left_args, right_args, err, buf, orphans, cwd, sl>>

ProgStop(c) ==
    /\ proc[c].st = "running"
    /\ proc' = [proc EXCEPT ![c].st = "stopped", ![c].rep = FALSE]
    /\ UNCHANGED <<pc, line, args, ret_code, left_args, right_args, err, fds, buf, orphans, cwd, sl>>

ProgCont(c) ==
    /\ proc[c].st = "stopped"
    /\ proc' = [proc EXCEPT ![c].st = "running"]
    /\ UNCHANGED <<pc, line, args, ret_code, left_args, right_args, err, fds, buf, orphans, cwd, sl>>

(***************************************************************************)
(* Specification                                                           *)
(***************************************************************************)
Next ==
    \/ show_prompt
    \/ jshell_read_line
    \/ SplitLine
    \/ LoopEnd
    \/ ExecEmpty
    \/ ExecSyntax
    \/ ExecNoRight
    \/ jshell_pipe
    \/ jshell_cd
    \/ jshell_help
    \/ jshell_exit
    \/ ExecRun
    \/ RunFork
    \/ RunWait
    \/ PipeCreate
    \/ Fork1
    \/ Fork2
    \/ Wait1
    \/ Wait2
    \/ \E c \in Children : ChildWire(c)
    \/ \E c \in Children : ChildExec(c)
    \/ \E c \in Children : ProgWrite(c)
    \/ \E c \in Children : ProgRead(c)
    \/ \E c \in Children : ProgExit(c)
    \/ \E c \in Children : ProgSignal(c)
    \/ \E c \in Children : ProgStop(c)
    \/ \E c \in Children : ProgCont(c)

Spec == Init /\ [][Next]_vars


\* Fair scheduling of the shell and its children, and programs that go on:
\* a program that can take a step again and again takes it, and a stopped
\* one is continued.
Fairness ==
    /\ WF_vars(PipeCreate) /\ WF_vars(Fork1) /\ WF_vars(Fork2)
    /\ WF_vars(Wait1) /\ WF_vars(Wait2)
    /\ WF_vars(RunFork) /\ WF_vars(RunWait)
    /\ \A c \in Children :
          /\ WF_vars(ChildWire(c))
          /\ WF_vars(ChildExec(c))
          /\ SF_vars(ProgWrite(c))
          /\ SF_vars(ProgRead(c))
          /\ SF_vars(ProgExit(c))
          /\ WF_vars(ProgCont(c))

FairSpec == Init /\ [][Next]_vars /\ Fairness


(***************************************************************************)
(* split_line, one iteration of its for loop at a time.  The allocations   *)
(* are taken to succeed.  A write past the end of an allocation is         *)
(* undefined: the call either goes on as if the buffer were large enough   *)
(* or the process is killed (split_crash).                                 *)
(***************************************************************************)
shell == <<pc, line, args, ret_code, left_args, right_args, err, fds, buf,
           proc, orphans, cwd>>

\* Lines given to split_line alone: every line of at most MaxLineLen
\* characters of SplitChars, a line with the other three delimiters, and
\* lines whose word is about MAX_WORD_SIZE long or that hold about
\* TOKEN_BUFFER_SIZE words.
SplitChars == {"x", " ", BEL, Quote}
ShortLines == UNION { [1..n -> SplitChars] : n \in 0..MaxLineLen }
OtherDelimiters == { <<"x", "\t", "x", "\r", "x", "\n", "x">> }
LongWord(n) == [k \in 1..n |-> "x"]
ManyWords(n) == [k \in 1..(n + n - 1) |-> IF k % 2 = 1 THEN "x" ELSE " "]
WordLengths == (MAX_WORD_SIZE - 1 - MaxExtra)..(MAX_WORD_SIZE + MaxExtra)
WordCounts == ((TOKEN_BUFFER_SIZE - MaxExtra)..(TOKEN_BUFFER_SIZE + MaxExtra))
                  \cup {TOKEN_BUFFER_SIZE + TOKEN_BUFFER_SIZE}
LongLines ==
    UNION { {LongWord(n), <<Quote>> \o LongWord(n) \o <<Quote>>,
             LongWord(n) \o <<Quote>>} : n \in WordLengths }
    \cup UNION { {ManyWords(n), ManyWords(n) \o <<" ">>} : n \in WordCounts }
SplitLines == ShortLines \cup OtherDelimiters \cup LongLines

\* A write at index w of an allocation of size elements: does it stay inside?
in_bounds(w, size) == w < size

\* What a step has done to the heap, given the indices it wrote at.
written(s) ==
    [s EXCEPT !.smashed = \/ s.smashed
                          \/ ~in_bounds(s.wtok, MAX_WORD_SIZE)
                          \/ ~in_bounds(s.warr, s.buffer_size)]

\* A tokenizer that lets an empty token through.
token_kept_always(token) == TRUE

\* if(!j) ... : an empty token is not stored.
token_kept(token) == Len(token) # 0

\* if(current_token >= buffer_size)
must_grow(current_token, buffer_size) == current_token >= buffer_size

\* The code at label End_token, entered with line[s.i] a delimiter or NUL.
split_End_token(s) ==
    LET eol  == At(s.line, s.i) = NUL
        size == IF must_grow(s.current_token, s.buffer_size)
                THEN s.buffer_size + TOKEN_BUFFER_SIZE ELSE s.buffer_size
        next == [s EXCEPT !.buffer_size = size,
                          !.pc = IF eol THEN "after" ELSE "loop",
                          !.i  = IF eol THEN s.i ELSE s.i + 1,
                          !.wtok = -1, !.warr = -1]
    IN  IF ~token_kept(s.token) THEN next
        ELSE written([next EXCEPT !.wtok = Len(s.token),
                                  !.warr = s.current_token,
                                  !.tokens = Append(s.tokens, s.token),
                                  !.token = << >>,
                                  !.current_token = s.current_token + 1])

\* if(line[i] == '"'): an opening quote, or a closing one.
split_quote ==
    /\ sl.pc = "loop"
    /\ At(sl.line, sl.i) = Quote
    /\ sl' = IF ~sl.in_quotes
             THEN [sl EXCEPT !.in_quotes = TRUE, !.i = sl.i + 1,
                             !.wtok = -1, !.warr = -1]
             ELSE IF ~is_delimiter(At(sl.line, sl.i + 1)) /\ At(sl.line, sl.i + 1) # NUL
             THEN [sl EXCEPT !.pc = "raised", !.wtok = -1, !.warr = -1,
                             !.msg = "Expected delimiter after end quote."]
             ELSE split_End_token([sl EXCEPT !.in_quotes = FALSE, !.i = sl.i + 1])
    /\ UNCHANGED shell

\* token[j] = line[i]; j++;
split_char ==
    /\ sl.pc = "loop"
    /\ At(sl.line, sl.i) \notin {NUL, Quote}
    /\ ~is_delimiter(At(sl.line, sl.i)) \/ sl.in_quotes
    /\ sl' = written([sl EXCEPT !.token = Append(sl.token, sl.line[sl.i]),
                                !.wtok = Len(sl.token), !.warr = -1,
                                !.i = sl.i + 1])
    /\ UNCHANGED shell

\* The end of the line, or a delimiter outside quotes.
split_delimiter ==
    /\ sl.pc = "loop"
    /\ \/ At(sl.line, sl.i) = NUL
       \/ is_delimiter(At(sl.line, sl.i)) /\ ~sl.in_quotes
    /\ sl' = split_End_token(sl)
    /\ UNCHANGED shell

\* After the loop: the unterminated-quote check, the NULL that ends tokens.
split_return ==
    /\ sl.pc = "after"
    /\ sl' = IF sl.in_quotes
             THEN [sl EXCEPT !.pc = "raised", !.wtok = -1, !.warr = -1,
                             !.msg = "Parsing ended unexpectedly."]
             ELSE written([sl EXCEPT !.pc = "returned", !.wtok = -1,
                                     !.warr = sl.current_token])
    /\ UNCHANGED shell

\* The heap was overrun: the process may be killed at any later step.
split_crash ==
    /\ sl.pc \in {"loop", "after"}
    /\ sl.smashed
    /\ sl' = [sl EXCEPT !.pc = "crashed", !.wtok = -1, !.warr = -1]
    /\ UNCHANGED shell

SplitInit == ShellInit /\ sl \in {split_enter(l) : l \in SplitLines}

SplitNext ==
    \/ split_quote
    \/ split_char
    \/ split_delimiter
    \/ split_return
    \/ split_crash

SplitSpec == SplitInit /\ [][SplitNext]_vars

(***************************************************************************)
(* Properties                                                              *)
(***************************************************************************)
\* jshell_exec_pipe is between its second fork and its return.
PipelineWaiting == pc \in {"wait1", "wait2"}

\* jshell_exec_pipe has returned after spawning both children.
PipelineReturned == pc = "ret" /\ proc["right"].st # "none"

\* The statuses of a child that has ended, by exit or by signal.
EndStatuses == {"exit0", "exit1", "signal"}

\* jshell_exec has taken its branch on a non-empty args.
Dispatched == args # << >> /\ pc # "exec"

\* jshell_pipe has computed left_args and right_args.
InPipeline == pc \in {"pipe", "fork1", "fork2", "wait1", "wait2"}

Spawned == {c \in Children : proc[c].st # "none"}

BeginsWithBar(tok) == Head(tok) = "|"
BarToken == <<"|">>
ExitToken == <<"e", "x", "i", "t">>
BuiltinNames == {<<"c", "d">>, <<"h", "e", "l", "p">>, ExitToken}
SyntaxMsg == "jshell: Syntax error for '|'."

\* C1: a two-stage pipeline whose children are both spawned, whose left
\* program ends after finite output and whose right program ends when it
\* reads end-of-input, leads under fair scheduling to jshell_exec_pipe
\* returning JSHELL_SUCCESS.
C1_PipelineReturns ==
    (/\ PipelineWaiting
     /\ proc["left"].kind = "finite"
     /\ proc["right"].kind = "filter")
        ~> (pc = "ret" /\ ret_code = JSHELL_SUCCESS)

\* C2: while the parent waits for a child of the pipeline, and once
\* jshell_exec_pipe has returned, the parent holds no open descriptor of
\* the pipe.
C2_ParentClosedBothEnds ==
    (PipelineWaiting \/ PipelineReturned) => fds["shell"] = {}

\* C3: when jshell_exec_pipe returns after spawning both children, both
\* have terminated, by exit or by signal, and the status returned is
\* JSHELL_SUCCESS whatever their exit statuses.
C3_BothTerminatedOnReturn ==
    PipelineReturned =>
        /\ Terminated("left") /\ proc["left"].status \in EndStatuses
        /\ Terminated("right") /\ proc["right"].status \in EndStatuses
        /\ ret_code = JSHELL_SUCCESS

\* The pipeline has returned after both children were spawned, the left
\* one ended by a signal and the right one by exit with a failure status.
C3_Witness ==
    /\ PipelineReturned
    /\ proc["left"].status = "signal"
    /\ proc["right"].status = "exit1"

\* C4: while the loop shows the prompt or reads the next line, no child of
\* an earlier call is running or unawaited.
C4_NoChildAtPrompt ==
    pc \in {"prompt", "read"} =>
        /\ ~orphans
        /\ \A c \in Children : ~Unawaited(c)


\* C5: the two vectors jshell_pipe computes are the tokens before and the
\* tokens after the last separator: left ++ ["|"] ++ right = tokens.
C5_SplitReconstructs ==
    InPipeline => left_args \o <<BarToken>> \o right_args = args

\* C6: both vectors jshell_pipe hands to jshell_exec_pipe are non-empty, so
\* no child is launched with an empty argument vector.
C6_BothVectorsNonEmpty ==
    InPipeline =>
        /\ left_args # << >> /\ Argv(left_args) # << >>
        /\ right_args # << >> /\ Argv(right_args) # << >>

\* C7: when "|" is the first token, or no token follows the separator,
\* jshell_exec returns JSHELL_FAILED with a diagnostic, creates no pipe and
\* spawns no child.
C7_BadSeparatorFails ==
    (Dispatched /\ (args[1] = BarToken \/ args[Len(args)] = BarToken)) =>
        /\ Spawned = {}
        /\ fds["shell"] = {}
        /\ pc \in {"ret", "pipe"}
        /\ pc = "ret" => (ret_code = JSHELL_FAILED /\ err # {})

\* C8 as stated: a token that contains the pipe character in a longer token,
\* at its start or elsewhere, is ignored by the pipe scan, so args without a
\* standalone "|" are run as a builtin or a single command.
C8_LongerTokenIgnored ==
    (Dispatched /\ \A i \in 1..Len(args) : args[i] # BarToken) =>
        /\ SyntaxMsg \notin err
        /\ pc = "ret" => ret_code # JSHELL_FAILED
        /\ pc \in {"ret", "run_fork", "run_wait", "aborted"}

\* C8 as amended: in args without a standalone "|", a token with the pipe
\* character after its first character is ignored and args run as a builtin
\* or a single command; a longer token that begins with the pipe character
\* makes jshell_exec return JSHELL_FAILED with the syntax diagnostic, no
\* pipe created and no child spawned.
C8_OnlyLeadingBarMatters ==
    (Dispatched /\ \A i \in 1..Len(args) : args[i] # BarToken) =>
        IF \E i \in 1..Len(args) : BeginsWithBar(args[i])
        THEN /\ pc = "ret"
             /\ ret_code = JSHELL_FAILED
             /\ SyntaxMsg \in err
             /\ Spawned = {}
             /\ fds["shell"] = {}
        ELSE /\ pc \in {"ret", "run_fork", "run_wait", "aborted"}
             /\ SyntaxMsg \notin err
             /\ pc = "ret" => ret_code \in {JSHELL_SUCCESS, JSHELL_EXIT_CODE}
             /\ Spawned \subseteq {"single"}
             /\ args[1] \in BuiltinNames => Spawned = {}
             /\ fds["shell"] = {}

\* A command with "a|b" as an argument has run as a builtin and returned.
C8_Witness ==
    /\ pc = "ret"
    /\ Len(args) >= 2
    /\ args[1] \in BuiltinNames
    /\ args[2] = <<"a", "|", "b">>
    /\ \A i \in 1..Len(args) : ~BeginsWithBar(args[i])
    /\ ret_code = JSHELL_SUCCESS

\* C9 as stated: on args whose first token is "exit", jshell_exec returns
\* JSHELL_EXIT_CODE whatever follows, and spawns no process.
C9_ExitAlwaysExits ==
    (Dispatched /\ args[1] = ExitToken) =>
        /\ pc = "ret"
        /\ ret_code = JSHELL_EXIT_CODE
        /\ Spawned = {}

\* C9 as amended: on args whose first token is "exit" and none of whose
\* tokens begins with the pipe character, jshell_exec returns
\* JSHELL_EXIT_CODE whatever follows, and spawns no process.
C9_ExitWithoutBarExits ==
    (/\ Dispatched
     /\ args[1] = ExitToken
     /\ \A i \in 1..Len(args) : ~BeginsWithBar(args[i])) =>
        /\ pc = "ret"
        /\ ret_code = JSHELL_EXIT_CODE
        /\ Spawned = {}
        /\ fds["shell"] = {}

\* "exit" with extra arguments has returned JSHELL_EXIT_CODE.
C9_Witness ==
    /\ pc = "ret"
    /\ Len(args) >= 2
    /\ args[1] = ExitToken
    /\ \A i \in 1..Len(args) : ~BeginsWithBar(args[i])
    /\ ret_code = JSHELL_EXIT_CODE

\* C10: jshell_exec returns JSHELL_EXIT_CODE only when args[0] is "exit",
\* anything else returns JSHELL_SUCCESS or JSHELL_FAILED; after those the
\* loop goes to the next prompt, and it ends only after JSHELL_EXIT_CODE.
C10_OnlyExitEndsLoop ==
    /\ [](pc = "ret" =>
            /\ ret_code \in {JSHELL_SUCCESS, JSHELL_FAILED, JSHELL_EXIT_CODE}
            /\ ret_code = JSHELL_EXIT_CODE =>
                  (args # << >> /\ args[1] = ExitToken /\ Spawned = {}))
    /\ [](pc = "done" => ret_code = JSHELL_EXIT_CODE)
    /\ [][(pc = "ret" /\ pc' # "ret") =>
            pc' = IF ret_code \in {JSHELL_SUCCESS, JSHELL_FAILED}
                  THEN "prompt" ELSE "done"]_vars

\* The loop is back at the prompt after a call that returned JSHELL_FAILED.
C10_Witness == pc = "prompt" /\ ret_code = JSHELL_FAILED

\* jshell_exec has handed a line without separator and without builtin to
\* jshell_run, which has not yet returned to the loop's end.
SingleLaunch == args # << >> /\ exec_route(args) = "run" /\ pc # "exec"

\* The single child ended without ever running a program: execvp failed.
LaunchFailed == Terminated("single") /\ proc["single"].kind = "-"

Delimiters == {" ", "\t", "\r", "\n", BEL}

Quoted(l, i) == Cardinality({k \in 1..(i - 1) : l[k] = Quote}) % 2 = 1

Separator(l, i) == l[i] \in Delimiters /\ ~Quoted(l, i)

\* Every quote that opens is closed, and what closes is followed by a
\* delimiter or by the end of the line.
WellFormed(l) ==
    /\ ~Quoted(l, Len(l) + 1)
    /\ \A i \in 1..Len(l) :
          (l[i] = Quote /\ Quoted(l, i)) =>
              (i = Len(l) \/ l[i + 1] \in Delimiters)

RunStarts(l) ==
    {i \in 1..Len(l) : ~Separator(l, i) /\ (i = 1 \/ Separator(l, i - 1))}

RunEnd(l, a) ==
    Max({b \in a..Len(l) : \A k \in a..b : ~Separator(l, k)})

Unquote(l, a, b) == SelectSeq(SubSeq(l, a, b), LAMBDA c : c # Quote)

RECURSIVE RunsFrom(_, _)
RunsFrom(l, starts) ==
    IF starts = {} THEN << >>
    ELSE LET a == Min(starts)
             t == Unquote(l, a, RunEnd(l, a))
         IN  (IF t = << >> THEN << >> ELSE <<t>>) \o RunsFrom(l, starts \ {a})

Reference(l) == RunsFrom(l, RunStarts(l))

\* split_line is over: it returned, raised an error or the process died.
SplitOver == sl.pc \in {"returned", "raised", "crashed"}

\* C12: on every line with well-formed quoting split_line returns, and
\* what it returns is the reference tokenization of the line, the tokens in
\* the order of the input.
C12_SplitIsReference ==
    (SplitOver /\ WellFormed(sl.line)) =>
        /\ sl.pc = "returned"
        /\ sl.tokens = Reference(sl.line)

\* The same for the lines on which no write of split_line left its buffer.
ReferenceInsideBuffers ==
    (SplitOver /\ WellFormed(sl.line) /\ ~sl.smashed) =>
        /\ sl.pc = "returned"
        /\ sl.tokens = Reference(sl.line)

\* The line has two delimiters in a row outside quotes / an empty quoted
\* string standing alone.
HasDelimiterRun(l) ==
    \E i \in 1..(Len(l) - 1) : Separator(l, i) /\ Separator(l, i + 1)

HasEmptyQuotes(l) ==
    \E i \in 1..(Len(l) - 1) :
        /\ l[i] = Quote /\ ~Quoted(l, i) /\ l[i + 1] = Quote
        /\ i = 1 \/ Separator(l, i - 1)

\* C13: split_line never stores an empty token, so none is in what it
\* returns: a run of delimiters separates two tokens like one delimiter
\* does, an empty quoted string gives no token, and a line of delimiters
\* only gives the empty sequence.
C13_NoEmptyToken ==
    /\ \A k \in 1..Len(sl.tokens) : Len(sl.tokens[k]) >= 1
    /\ sl.pc = "returned" =>
          /\ Len(sl.tokens) <= Cardinality(RunStarts(sl.line))
          /\ (\A i \in 1..Len(sl.line) : sl.line[i] \in Delimiters)
                 => sl.tokens = << >>
          /\ sl.line = <<Quote, Quote>> => sl.tokens = << >>

\* split_line has returned a token from a line that has a run of delimiters
\* and an empty quoted string.
C13_Witness ==
    /\ sl.pc = "returned"
    /\ HasDelimiterRun(sl.line)
    /\ HasEmptyQuotes(sl.line)
    /\ sl.tokens # << >>

SplitDiagnostics ==
    {"Expected delimiter after end quote.", "Parsing ended unexpectedly."}

\* C14: split_line ends in raise_error, with a diagnostic, exactly on the
\* lines whose quoting is malformed (a closing quote followed by a
\* character that is neither a delimiter nor the end of the line, or the
\* end of the line reached inside quotes); on every other line it returns
\* its tokens.
C14_AbortsIffMalformed ==
    SplitOver =>
        IF WellFormed(sl.line)
        THEN sl.pc = "returned"
        ELSE sl.pc = "raised" /\ sl.msg \in SplitDiagnostics

\* The same for the lines on which no write of split_line left its buffer.
AbortsIffMalformedInsideBuffers ==
    (SplitOver /\ ~sl.smashed) =>
        IF WellFormed(sl.line)
        THEN sl.pc = "returned"
        ELSE sl.pc = "raised" /\ sl.msg \in SplitDiagnostics

CdToken == <<"c", "d">>
CdMissingMsg == "jshell: Error occurred: Argument expected for 'cd' command"
ChdirMsg == "jshell: chdir"
NoBar(a) == \A i \in 1..Len(a) : ~BeginsWithBar(a[i])

\* C15 as stated: on args whose first token is "cd" and that has a second
\* token, whatever the tokens are, jshell_exec returns JSHELL_SUCCESS after
\* a chdir to the second token that either succeeded or was reported, and
\* spawns no child.
C15_CdAlwaysChdir ==
    (Dispatched /\ args[1] = CdToken /\ Len(args) >= 2) =>
        /\ pc = "ret"
        /\ ret_code = JSHELL_SUCCESS
        /\ Spawned = {}
        /\ cwd = args[2] \/ ChdirMsg \in err

\* C15 as amended: jshell_exec on <<"cd">> alone ends the shell in
\* raise_error with a diagnostic; on "cd" followed by more tokens, none of
\* them beginning with the pipe character, it calls chdir on the second
\* token and returns JSHELL_SUCCESS both when that succeeds (the working
\* directory is then that token) and when it fails (the failure is
\* reported and the working directory is the one it was); no child is
\* spawned and no pipe created in any of these cases.  When a token begins
\* with the pipe character no chdir is attempted.
C15_CdWithoutBar ==
    [][(pc = "exec" /\ args # << >> /\ args[1] = CdToken) =>
          /\ proc' = proc /\ fds' = fds /\ orphans' = orphans
          /\ IF Len(args) = 1
             THEN /\ pc' = "aborted"
                  /\ CdMissingMsg \in err'
                  /\ cwd' = cwd
             ELSE IF NoBar(args)
             THEN /\ pc' = "ret"
                  /\ ret_code' = JSHELL_SUCCESS
                  /\ \/ cwd' = args[2] /\ err' = err
                     \/ cwd' = cwd /\ err' = err \cup {ChdirMsg}
             ELSE cwd' = cwd]_vars

\* After an earlier "cd" that succeeded, a "cd" to a directory that cannot
\* be entered has been reported and has returned JSHELL_SUCCESS, the
\* working directory still being the one entered before.
C15_Witness ==
    /\ pc = "ret"
    /\ args # << >> /\ args[1] = CdToken /\ Len(args) >= 2 /\ NoBar(args)
    /\ ret_code = JSHELL_SUCCESS
    /\ ChdirMsg \in err
    /\ cwd \in Dirs
    /\ cwd # args[2]

\* The line is empty or holds delimiters only.
Blank(l) == \A i \in 1..Len(l) : l[i] \in Delimiters

\* jshell_loop is past split_line and not yet through its loop's end.
PastSplit == pc \notin {"prompt", "read", "split", "done"}

\* C16: a line that is empty or holds delimiters only is split into the
\* empty token sequence, and jshell_exec on the empty sequence returns
\* JSHELL_SUCCESS and does nothing else: no diagnostic, no pipe, no child.
C16_BlankLineIsNoOp ==
    /\ (PastSplit /\ Blank(line)) => args = << >>
    /\ (PastSplit /\ WellFormed(line) /\ args = << >>) =>
          /\ pc \in {"exec", "ret"}
          /\ err = {}
          /\ fds = NoFds /\ buf = 0
          /\ Spawned = {}
          /\ pc = "ret" => ret_code = JSHELL_SUCCESS

\* jshell_exec has returned JSHELL_SUCCESS on the tokens of a line of
\* delimiters.
C16_Witness ==
    /\ pc = "ret"
    /\ line # << >> /\ Blank(line)
    /\ args = << >>
    /\ ret_code = JSHELL_SUCCESS

\* waitpid has returned something about child c to the shell.
WaitReturned(c) == proc[c].st = "reaped" \/ proc[c].rep

\* C17: in jshell_exec_pipe the shell waits for neither child before both
\* are spawned, and the left child is spawned before the right one: the
\* shell is in a wait loop, or has had a waitpid return, only with both
\* children spawned, and the right child exists only if the left one does.
C17_SpawnBeforeAwait ==
    /\ PipelineWaiting => {"left", "right"} \subseteq Spawned
    /\ (\E c \in {"left", "right"} : WaitReturned(c)) =>
           {"left", "right"} \subseteq Spawned
    /\ "right" \in Spawned => "left" \in Spawned
    /\ pc = "fork2" => ("left" \in Spawned /\ "right" \notin Spawned)

\* Both programs are running at once while the shell waits for the left one.
C17_Witness ==
    /\ pc = "wait1"
    /\ proc["left"].st = "running"
    /\ proc["right"].st = "running"

\* What the shell itself (not a child) writes to stderr before it returns
\* JSHELL_FAILED, and before it ends in raise_error.
FailureDiagnostics ==
    {SyntaxMsg, "jshell: Right command expected for piping.",
     "jshell: Pipe could not be initialized.", "jshell: Fork failed."}

AbortDiagnostics == SplitDiagnostics \cup {CdMissingMsg}

\* C18: every step by which jshell_exec returns JSHELL_FAILED, from the
\* pipe scan, from jshell_pipe or from jshell_exec_pipe, and every step by
\* which the shell ends in raise_error, writes a diagnostic of the shell to
\* stderr: no failure is returned silently.
C18_FailureHasDiagnostic ==
    [][/\ (pc # "ret" /\ pc' = "ret" /\ ret_code' = JSHELL_FAILED) =>
              (err' \ err) \cap FailureDiagnostics # {}
       /\ (pc # "aborted" /\ pc' = "aborted") =>
              (err' \ err) \cap AbortDiagnostics # {}]_vars

\* jshell_exec_pipe has returned JSHELL_FAILED after reporting that no pipe
\* could be created.
C18_Witness ==
    /\ pc = "ret"
    /\ ret_code = JSHELL_FAILED
    /\ "jshell: Pipe could not be initialized." \in err

\* C19: every write of split_line into the token buffer, the terminating
\* NUL included, is at an index below MAX_WORD_SIZE, however long the words
\* of the line are.
C19_TokenWritesInBounds == sl.wtok < MAX_WORD_SIZE

\* C20: every write of split_line into the tokens array, the final NULL at
\* index current_token included, is at an index below buffer_size, also
\* when the line holds exactly TOKEN_BUFFER_SIZE tokens, or a multiple, and
\* ends on the last of them.
C20_ArrayWritesInBounds == sl.warr < sl.buffer_size

\* The writes of tokens[current_token] = token inside the loop stay inside
\* the array: the growth check comes before each of them.
StoredTokensInBounds == sl.pc # "returned" => sl.warr < sl.buffer_size

=============================================================================
